---------------------------- MODULE Spec2Model ----------------------------
(***************************************************************************)
(* A model of the Vahan AI assistant: the response resolver of            *)
(* app/chatbot.py, the interaction log and analytics of app/analytics.py  *)
(* and the request handlers of main.py.                                   *)
(*                                                                         *)
(* Texts are sequences of one-character strings, so that the substring    *)
(* tests of the code ("hi" in clean_input) are computed, not assumed.     *)
(* Knowledge documents are sequences of markdown pieces (a heading, a     *)
(* table, a code block, ...), each with a known first character, so that  *)
(* indexing a document text (content[0]) is computed too.                 *)
(***************************************************************************)
EXTENDS Integers, Sequences, FiniteSets, TLC

VARIABLES
    app,                   \* main.py: "starting" | "running" | "startup_failed"
    chatbot,               \* main.py global: "None" | "Chatbot"
    initialized,           \* Chatbot.initialized
    collection,            \* Chatbot.collection: document id -> stored text
    conversation_history,  \* Chatbot.conversation_history
    turns,                 \* every turn ever appended to the history, in order
    db_file,               \* analytics.db exists
    version_table,         \* table version exists
    version_rows,          \* rows of table version
    interactions_table,    \* table interactions exists
    indexes,               \* indexes that exist
    interactions,          \* rows of table interactions, in insertion order
    clock,                 \* UTC time, in slots of SlotsPerDay per day
    tz,                    \* local time minus UTC, in slots
    requests,              \* chat and feedback requests handled so far
    last                   \* outcome of the last operation, as its caller sees it

vars == <<app, chatbot, initialized, collection, conversation_history, turns,
          db_file, version_table, version_rows, interactions_table, indexes,
          interactions, clock, tz, requests, last>>

chatVars == <<app, chatbot, initialized, collection, conversation_history, turns>>
dbVars == <<db_file, version_table, version_rows, interactions_table, indexes,
            interactions>>

-----------------------------------------------------------------------------
(* Bounds of the model *)

\* chat and feedback requests handled in a behaviour of Spec
MaxRequests == 1
\* chat requests handled in a behaviour of SpecHistory
MaxTurns == 8
\* chat and feedback requests handled in a behaviour of SpecAnalytics
MaxLogged == 2
\* the clock advances at most this many slots
MaxElapsed == 6
\* largest "days" argument of get_analytics_summary
MaxDays == 2

-----------------------------------------------------------------------------
(* Texts *)

None == "None"

Max(a, b) == IF a >= b THEN a ELSE b
Min(a, b) == IF a <= b THEN a ELSE b

\* Python: kw in text
Contains(text, kw) ==
    \E i \in 1..(Len(text) - Len(kw) + 1) : SubSeq(text, i, i + Len(kw) - 1) = kw

\* Python: any(k in text for k in kws)
ContainsAny(text, kws) == \E k \in kws : Contains(text, k)

UpperToLower ==
    [c \in {"A", "B", "C", "D", "E", "F", "G", "H", "I", "J", "K", "L", "M", "N",
            "O", "P", "Q", "R", "S", "T", "U", "V", "W", "X", "Y", "Z"} |->
        CASE c = "A" -> "a" [] c = "B" -> "b" [] c = "C" -> "c" [] c = "D" -> "d"
          [] c = "E" -> "e" [] c = "F" -> "f" [] c = "G" -> "g" [] c = "H" -> "h"
          [] c = "I" -> "i" [] c = "J" -> "j" [] c = "K" -> "k" [] c = "L" -> "l"
          [] c = "M" -> "m" [] c = "N" -> "n" [] c = "O" -> "o" [] c = "P" -> "p"
          [] c = "Q" -> "q" [] c = "R" -> "r" [] c = "S" -> "s" [] c = "T" -> "t"
          [] c = "U" -> "u" [] c = "V" -> "v" [] c = "W" -> "w" [] c = "X" -> "x"
          [] c = "Y" -> "y" [] c = "Z" -> "z"]

\* Python: str.lower()
Lower(text) ==
    [i \in 1..Len(text) |->
        IF text[i] \in DOMAIN UpperToLower THEN UpperToLower[text[i]] ELSE text[i]]

RECURSIVE LStrip(_)
LStrip(text) ==
    IF text # <<>> /\ Head(text) = " " THEN LStrip(Tail(text)) ELSE text

RECURSIVE RStrip(_)
RStrip(text) ==
    IF text # <<>> /\ text[Len(text)] = " "
    THEN RStrip(SubSeq(text, 1, Len(text) - 1))
    ELSE text

\* Python: str.strip()
Strip(text) == RStrip(LStrip(text))

-----------------------------------------------------------------------------
(* Keyword lists of the resolver and of the classifier *)

GreetingKeywords == {<<"h", "i">>, <<"h", "e", "l", "l", "o">>, <<"h", "e", "y">>}
FarewellKeywords == {<<"b", "y", "e">>, <<"g", "o", "o", "d", "b", "y", "e">>}
HelpKeyword == <<"h", "e", "l", "p">>
OrgKeywords == {<<"w", "h", "o">>, <<"c", "e", "o">>,
                <<"f", "o", "u", "n", "d", "e", "r">>, <<"t", "e", "a", "m">>}
Kw404 == <<"4", "0", "4">>

\* document_handlers, in declaration order
DocOrder == <<"pricing.md", "faq.md", "features.md", "api.md">>

Triggers(doc_name) ==
    CASE doc_name = "pricing.md" ->
           {<<"p", "r", "i", "c", "i", "n", "g">>, <<"p", "l", "a", "n">>,
            <<"c", "o", "s", "t">>,
            <<"s", "u", "b", "s", "c", "r", "i", "p", "t", "i", "o", "n">>,
            <<"h", "o", "w", " ", "m", "u", "c", "h">>}
      [] doc_name = "faq.md" ->
           {<<"f", "a", "q">>, <<"q", "u", "e", "s", "t", "i", "o", "n">>,
            <<"a", "s", "k">>,
            <<"c", "o", "m", "m", "o", "n", " ", "q", "u", "e", "r", "i", "e", "s">>}
      [] doc_name = "features.md" ->
           {<<"f", "e", "a", "t", "u", "r", "e">>,
            <<"c", "a", "p", "a", "b", "i", "l", "i", "t", "y">>,
            <<"w", "h", "a", "t", " ", "c", "a", "n">>,
            <<"f", "u", "n", "c", "t", "i", "o", "n", "a", "l", "i", "t", "y">>}
      [] doc_name = "api.md" ->
           {<<"a", "p", "i">>, <<"e", "n", "d", "p", "o", "i", "n", "t">>,
            <<"c", "u", "r", "l">>,
            <<"a", "u", "t", "h", "e", "n", "t", "i", "c", "a", "t", "e">>,
            <<"i", "n", "t", "e", "g", "r", "a", "t", "i", "o", "n">>}
      [] OTHER -> {}

\* doc_name.split('.')[0], and file.stem / file.name at load time
Stem(doc_name) ==
    CASE doc_name = "pricing.md" -> "pricing"
      [] doc_name = "faq.md" -> "faq"
      [] doc_name = "features.md" -> "features"
      [] doc_name = "api.md" -> "api"
      [] doc_name = "release_notes.md" -> "release_notes"

FileName(id) ==
    CASE id = "pricing" -> "pricing.md"
      [] id = "faq" -> "faq.md"
      [] id = "features" -> "features.md"
      [] id = "api" -> "api.md"
      [] id = "release_notes" -> "release_notes.md"

\* source.replace('.md', '').replace('_', ' ').title()
Titleize(source) ==
    CASE source = "pricing.md" -> "Pricing"
      [] source = "faq.md" -> "Faq"
      [] source = "features.md" -> "Features"
      [] source = "api.md" -> "Api"
      [] source = "release_notes.md" -> "Release Notes"

\* analytics.classify_question
classify_question(text) ==
    LET t == Lower(text) IN
    IF ContainsAny(t, {<<"p", "r", "i", "c", "e">>, <<"c", "o", "s", "t">>,
                       <<"p", "l", "a", "n">>}) THEN "pricing"
    ELSE IF ContainsAny(t, {<<"h", "o", "w">>, <<"s", "e", "t", "u", "p">>,
                            <<"i", "n", "s", "t", "a", "l", "l">>}) THEN "setup"
    ELSE IF ContainsAny(t, {<<"e", "r", "r", "o", "r">>, <<"f", "i", "x">>,
                            <<"b", "u", "g">>}) THEN "troubleshooting"
    ELSE IF ContainsAny(t, {<<"a", "p", "i">>,
                            <<"i", "n", "t", "e", "g", "r", "a", "t", "e">>,
                            <<"c", "o", "n", "n", "e", "c", "t">>}) THEN "integration"
    ELSE IF ContainsAny(t, {<<"f", "e", "a", "t", "u", "r", "e">>,
                            <<"c", "a", "p", "a", "b", "i", "l", "i", "t", "y">>})
         THEN "features"
    ELSE "general"

-----------------------------------------------------------------------------
(* Knowledge documents: a stored text is a sequence of markdown pieces *)

\* "# Pricing Plans\n", a markdown table of three rows or more, a "**Q: ..**
\* A: .." pair, a "## Title\n- item\n" section, "## Authentication\n", a fenced
\* code block, a plain paragraph
Pieces == {"PricingHeading", "Table", "QA", "Section", "AuthHeading", "CodeBlock",
           "Para"}

\* the first character of a piece; a one-character text is its own first character
FirstCharOf(piece) ==
    CASE piece = "PricingHeading" -> "#"
      [] piece = "Table" -> "|"
      [] piece = "QA" -> "*"
      [] piece = "Section" -> "#"
      [] piece = "AuthHeading" -> "#"
      [] piece = "CodeBlock" -> "BACKTICK"
      [] piece = "Para" -> "t"
      [] OTHER -> piece

\* Python: text[0], a text of one character (IndexError on the empty text is not
\* reached: the caller tests "if doc_content" first)
PyIndex0(text) == <<FirstCharOf(text[1])>>

\* _clean_markdown, piece by piece: heading marks, bullets and emphasis removed
CleanPiece(piece) ==
    CASE piece = "PricingHeading" -> "Pricing Plans"
      [] piece = "Table" -> "Table"
      [] piece = "QA" -> "Q: .. A: .."
      [] piece = "Section" -> "Title, bullet item"
      [] piece = "AuthHeading" -> "Authentication"
      [] piece = "CodeBlock" -> "CodeBlock"
      [] piece = "Para" -> "Para"
      [] piece = "#" -> ""
      [] piece = "*" -> "*"
      [] OTHER -> piece

_clean_markdown(text) == [i \in 1..Len(text) |-> CleanPiece(text[i])]

-----------------------------------------------------------------------------
(* Replies: the lines of the text, and the suggested names of the no-match    *)
(* reply (a Python set, joined in no fixed order)                             *)

Reply(lines) == [lines |-> lines, suggestions |-> {}]

GreetingMsg == Reply(<<"Hello! I am your Vahan AI assistant. I can help you with:",
                       "What would you like to know about?">>)
FarewellMsg == Reply(<<"Goodbye! If you have more questions later, I can help with:",
                       "Have a great day!">>)
OrgMsg == Reply(<<"I specialize in product information. For organizational questions:">>)
InitializingMsg == Reply(<<"System is initializing... Please try again shortly.">>)
QueryErrorMsg == Reply(<<"I encountered an error processing your request. Please:">>)

\* _get_help_response
_get_help_response ==
    Reply(<<"I can provide detailed information about:",
            "Product Features", "Pricing Plans", "API Documentation",
            "Frequently Asked Questions",
            "What would you like to explore in detail?">>)

-----------------------------------------------------------------------------
(* Document formatters *)

PricingFallback == Reply(<<"For comprehensive pricing information:">>)

\* _format_pricing: a table after the "# Pricing Plans" heading
_format_pricing(content) ==
    IF \E i, j \in 1..Len(content) :
          i < j /\ content[i] = "PricingHeading" /\ content[j] = "Table"
    THEN Reply(<<"Here are our detailed pricing plans:", "Table",
                 "Additional information:",
                 "Which plan would you like more details about?">>)
    ELSE PricingFallback

\* _format_faq: the first five question/answer pairs
_format_faq(content) ==
    LET qa_pairs == SelectSeq(content, LAMBDA p : p = "QA") IN
    IF qa_pairs # <<>>
    THEN Reply(<<"Here are detailed answers to common questions:">>
               \o [i \in 1..Min(5, Len(qa_pairs)) |-> "Q: .. A: .."]
               \o <<"For more FAQs:">>)
    ELSE Reply(<<"Our FAQ covers important topics like:">>)

\* _format_features: every "## " section, then the footer in all cases
_format_features(content) ==
    LET sections == SelectSeq(content, LAMBDA p : p \in {"Section", "AuthHeading"}) IN
    Reply(<<"Here is a comprehensive look at our features:">>
          \o [i \in 1..Len(sections) |->
                IF sections[i] = "Section" THEN "Title: bullet item"
                                           ELSE "Authentication:"]
          \o <<"Additional capabilities include:",
               "Which feature would you like more details about?">>)

\* the body of the "## Authentication" section: up to the next "##" or the end
RECURSIVE UpToNextSection(_)
UpToNextSection(pieces) ==
    IF pieces = <<>> \/ Head(pieces) \in {"Section", "AuthHeading"}
    THEN <<>>
    ELSE <<Head(pieces)>> \o UpToNextSection(Tail(pieces))

Checklist404 == "For 404 errors, please verify:"
ApiFooter == "Additional API resources:"

\* _format_api, which reads self.conversation_history
_format_api(content, history) ==
    LET auth == {i \in 1..Len(content) : content[i] = "AuthHeading"}
        first == CHOOSE i \in auth : \A j \in auth : i <= j
        auth_content == UpToNextSection(SubSeq(content, first + 1, Len(content)))
        code_blocks == SelectSeq(auth_content, LAMBDA p : p = "CodeBlock")
    IN
    Reply(<<"Here is detailed API information:">>
          \o (IF auth # {} /\ code_blocks # <<>>
              THEN <<"Authentication Example:", "CodeBlock">> ELSE <<>>)
          \o (IF auth # {} /\ Len(history) >= 2
                 /\ Contains(Lower(history[Len(history) - 1][2]), Kw404)
              THEN <<Checklist404>> ELSE <<>>)
          \o <<ApiFooter, "What specific API question can I answer?">>)

\* _format_general
_format_general(content, source) ==
    IF source # None
    THEN Reply(<<"From our documentation:", Titleize(source)>>
               \o _clean_markdown(content)
               \o <<"Would you like more details on any specific aspect?">>)
    ELSE Reply(_clean_markdown(content))

\* handler['format'](text) of document_handlers[doc_name]
HandlerFormat(doc_name, text, history) ==
    CASE doc_name = "pricing.md" -> _format_pricing(text)
      [] doc_name = "faq.md" -> _format_faq(text)
      [] doc_name = "features.md" -> _format_features(text)
      [] doc_name = "api.md" -> _format_api(text, history)

\* _format_content
_format_content(content, source, history) ==
    IF source \in {DocOrder[i] : i \in 1..Len(DocOrder)}
    THEN HandlerFormat(source, content, history)
    ELSE _format_general(content, source)

-----------------------------------------------------------------------------
(* The resolver: Chatbot.generate_response *)

\* the window of _update_conversation_history
HistoryWindow == 6

\* a history that keeps its first entries and drops the new one
KeepOldestHistory(history, role, content) ==
    LET appended == Append(history, <<role, content>>) IN
    IF Len(appended) > HistoryWindow
    THEN SubSeq(appended, 1, HistoryWindow)
    ELSE appended

\* _update_conversation_history
_update_conversation_history(history, role, content) ==
    LET appended == Append(history, <<role, content>>) IN
    IF Len(appended) > HistoryWindow
    THEN SubSeq(appended, Len(appended) - HistoryWindow + 1, Len(appended))
    ELSE appended

\* The outcomes of collection.query(query_texts=[text], n_results=n): it raises,
\* or it returns its lists. kind "lists": results['documents'] is [[d1, ..]],
\* one inner list for the one query text, of min(n, size of the store)
\* documents in ranking order, the ranking being the embedding engine's; the
\* inner list is empty for an empty store. kind "no_lists": the outer list is
\* itself empty, the one result the test "if results['documents']" of
\* generate_response takes for no match.
SeqsOfLen(S, n) == {q \in [1..n -> S] : \A i, j \in 1..n : i # j => q[i] # q[j]}

QueryOutcomes(coll, n) ==
    {[kind |-> "raise", ids |-> <<>>], [kind |-> "no_lists", ids |-> <<>>]}
    \cup {[kind |-> "lists", ids |-> q] :
            q \in SeqsOfLen(DOMAIN coll, Min(n, Cardinality(DOMAIN coll)))}

\* _handle_no_match, given the outcome q3 of its top-3 query
_handle_no_match(q3) ==
    IF q3.kind = "lists" /\ q3.ids # <<>>
    THEN [lines |-> <<"I could not find an exact match. You might explore:",
                      "Or ask about:">>,
          suggestions |-> {Titleize(FileName(q3.ids[i])) : i \in 1..Len(q3.ids)}]
    ELSE _get_help_response

\* collection.get(ids=[id], include=["documents"])['documents'][0]: the stored
\* text of the document; IndexError when the store holds no such document
HasDocument(coll, id) == id \in DOMAIN coll

\* the argument generate_response hands to the formatter: doc_content[0]
FormatterArgument(doc_content) == PyIndex0(doc_content)

\* the loop "for doc_name, handler in self.document_handlers.items()", from the
\* k-th handler on: the first handler with a trigger in the input whose document
\* the store returns answers; a handler whose fetch raises is skipped
RECURSIVE DirectMatch(_, _, _, _)
DirectMatch(clean_input, coll, history, k) ==
    IF k > Len(DocOrder) THEN [found |-> FALSE, reply |-> Reply(<<>>), source |-> None]
    ELSE LET doc_name == DocOrder[k] IN
         IF ContainsAny(clean_input, Triggers(doc_name))
            /\ HasDocument(coll, Stem(doc_name))
            /\ coll[Stem(doc_name)] # <<>>
         THEN [found |-> TRUE,
               reply |-> HandlerFormat(doc_name,
                                       FormatterArgument(coll[Stem(doc_name)]),
                                       history),
               source |-> doc_name]
         ELSE DirectMatch(clean_input, coll, history, k + 1)

\* a fallback whose "except" branch goes to the no-match handler
SemanticFallbackNoMatchOnError(coll, history, q1, q3) ==
    IF q1.kind = "lists" /\ q1.ids # <<>>
    THEN LET source == FileName(q1.ids[1]) IN
         [reply |-> _format_content(coll[q1.ids[1]], source, history),
          source |-> source]
    ELSE [reply |-> _handle_no_match(q3), source |-> None]

\* the semantic fallback of generate_response, given the outcomes q1 of the
\* top-1 query and q3 of the top-3 query of _handle_no_match
SemanticFallback(coll, history, q1, q3) ==
    IF q1.kind = "raise" THEN [reply |-> QueryErrorMsg, source |-> None]
    ELSE IF q1.kind = "lists"
    THEN IF q1.ids = <<>>
         THEN \* results['documents'][0][0] raises IndexError, caught below
              [reply |-> QueryErrorMsg, source |-> None]
         ELSE LET source == FileName(q1.ids[1]) IN
              [reply |-> _format_content(coll[q1.ids[1]], source, history),
               source |-> source]
    ELSE [reply |-> _handle_no_match(q3), source |-> None]

\* a resolver that tests the organizational keywords before "help"
RuleBranchOrgBeforeHelp(clean_input) ==
    IF ContainsAny(clean_input, GreetingKeywords) THEN "greeting"
    ELSE IF ContainsAny(clean_input, FarewellKeywords) THEN "farewell"
    ELSE IF ContainsAny(clean_input, OrgKeywords) THEN "org"
    ELSE IF Contains(clean_input, HelpKeyword) THEN "help"
    ELSE "none"

\* the rule branches of generate_response, in the order of the code
RuleBranch(clean_input) ==
    IF ContainsAny(clean_input, GreetingKeywords) THEN "greeting"
    ELSE IF ContainsAny(clean_input, FarewellKeywords) THEN "farewell"
    ELSE IF Contains(clean_input, HelpKeyword) THEN "help"
    ELSE IF ContainsAny(clean_input, OrgKeywords) THEN "org"
    ELSE "none"

\* generate_response: the reply, the source, the history it leaves and whether
\* it consulted the store (collection.get or collection.query)
generate_response(is_initialized, coll, history, user_input, q1, q3) ==
    IF ~is_initialized
    THEN [reply |-> InitializingMsg, source |-> None, history |-> history,
          consulted |-> FALSE]
    ELSE LET clean_input == Strip(Lower(user_input))
             h == _update_conversation_history(history, "user", clean_input)
             rule == RuleBranch(clean_input)
             direct == DirectMatch(clean_input, coll, h, 1)
             semantic == SemanticFallback(coll, h, q1, q3)
         IN
         IF rule = "greeting"
         THEN [reply |-> GreetingMsg, source |-> None, history |-> h,
               consulted |-> FALSE]
         ELSE IF rule = "farewell"
         THEN [reply |-> FarewellMsg, source |-> None, history |-> h,
               consulted |-> FALSE]
         ELSE IF rule = "help"
         THEN [reply |-> _get_help_response, source |-> None, history |-> h,
               consulted |-> FALSE]
         ELSE IF rule = "org"
         THEN [reply |-> OrgMsg, source |-> None, history |-> h,
               consulted |-> FALSE]
         ELSE IF direct.found
         THEN [reply |-> direct.reply, source |-> direct.source, history |-> h,
               consulted |-> TRUE]
         ELSE [reply |-> semantic.reply, source |-> semantic.source, history |-> h,
               consulted |-> TRUE]

-----------------------------------------------------------------------------
(* The interaction log: app/analytics.py *)

DB_VERSION == 2

\* A day of the clock has this many slots, of four hours
SlotsPerDay == 6

\* the character codes of the separators of the two timestamp formats
SepCode(sep) == IF sep = "T" THEN 84 ELSE 32

\* datetime.now().isoformat(): local time, "YYYY-MM-DDTHH:MM:SS.ffffff"
LocalIsoformat(now, offset) ==
    [date |-> (now + offset) \div SlotsPerDay, sep |-> "T",
     time |-> (now + offset) % SlotsPerDay]

\* SQLite datetime('now', '-' || days || ' days'): UTC, "YYYY-MM-DD HH:MM:SS";
\* NULL for a modifier it cannot parse ('--1 days')
SqliteCutoff(now, days) ==
    IF days < 0 THEN [null |-> TRUE, date |-> 0, sep |-> " ", time |-> 0]
    ELSE [null |-> FALSE, date |-> (now \div SlotsPerDay) - days, sep |-> " ",
          time |-> now % SlotsPerDay]

\* SQLite's comparison of two TEXT values: byte by byte. The fields have a fixed
\* width, so dates and times compare as numbers and the separators as characters
TextGE(a, b) ==
    \/ a.date > b.date
    \/ a.date = b.date /\ SepCode(a.sep) > SepCode(b.sep)
    \/ a.date = b.date /\ a.sep = b.sep /\ a.time >= b.time

\* the WHERE clause of both queries of get_analytics_summary
InWindow(row, now, days) ==
    LET cutoff == SqliteCutoff(now, days) IN
    IF cutoff.null THEN FALSE ELSE TextGE(row.timestamp, cutoff)

\* A Python value that may be None: Some(v), or the None of its type
Some(v) == [some |-> TRUE, val |-> v]
NoText == [some |-> FALSE, val |-> <<>>]
NoInt == [some |-> FALSE, val |-> 0]
NoReply == [some |-> FALSE, val |-> Reply(<<>>)]

\* NOT NULL columns and the CHECK constraint of table interactions
ConstraintsHold(row) ==
    /\ row.session_id.some
    /\ row.bot_response.some
    /\ row.satisfaction.some => row.satisfaction.val \in 1..5

\* log_interaction: the rows it leaves and its return value; fault: the storage
\* engine fails the INSERT or the commit (sqlite3.Error). user_input is a text
\* in every call of main.py.
log_interaction(rows, has_table, now, offset, session_id, user_input, bot_response, satisfaction, response_time, document_source, fault) ==
    LET row == [timestamp |-> LocalIsoformat(now, offset),
                session_id |-> session_id,
                user_input |-> user_input,
                bot_response |-> bot_response,
                satisfaction |-> satisfaction,
                question_type |-> classify_question(user_input),
                response_time |-> response_time,
                document_source |-> document_source]
    IN
    IF fault \/ ~has_table \/ ~ConstraintsHold(row)
    THEN [ok |-> FALSE, rows |-> rows]
    ELSE [ok |-> TRUE, rows |-> Append(rows, row)]

Categories == {"pricing", "setup", "troubleshooting", "integration", "features",
               "general"}

RECURSIVE SumTimes(_)
SumTimes(rows) ==
    IF rows = <<>> THEN 0 ELSE Head(rows).response_time.val + SumTimes(Tail(rows))

NoSummary == [error |-> FALSE, total_interactions |-> 0, unique_sessions |-> 0,
              avg_response_time |-> NoInt, question_types |-> [c \in {} |-> 0]]

\* get_analytics_summary: the metrics and the count of each category that has
\* rows in the window (the rows ORDER BY count DESC, here as category -> count)
get_analytics_summary(rows, has_table, now, days, fault) ==
    IF fault \/ ~has_table
    THEN [NoSummary EXCEPT !.error = TRUE]
    ELSE LET sel == SelectSeq(rows, LAMBDA r : InWindow(r, now, days))
             timed == SelectSeq(sel, LAMBDA r : r.response_time.some)
             present == {sel[i].question_type : i \in 1..Len(sel)}
         IN
         [error |-> FALSE,
          total_interactions |-> Len(sel),
          unique_sessions |-> Cardinality({sel[i].session_id : i \in 1..Len(sel)}),
          avg_response_time |->
              IF timed = <<>> THEN NoInt ELSE Some(SumTimes(timed) \div Len(timed)),
          question_types |->
              [c \in present |->
                  Cardinality({i \in 1..Len(sel) : sel[i].question_type = c})]]

\* The database as init_db sees it
Database == [file |-> db_file, vtable |-> version_table, vrows |-> version_rows,
             itable |-> interactions_table, idx |-> indexes]

\* migrate_db. Statements 4 to 6 are DDL, which the sqlite3 module runs outside
\* a transaction (none is open after init_db's commit), so each is durable at
\* once; statement 7, the UPDATE, opens the transaction that statement 8 commits
\* and that conn.rollback() undoes. failAt: the statement that fails (0: none).
migrate_db(db, from_version, to_version, failAt) ==
    LET s4 == IF from_version < 2 THEN [db EXCEPT !.itable = TRUE] ELSE db
        s5 == IF from_version < 2
              THEN [s4 EXCEPT !.idx = @ \cup {"idx_session"}] ELSE s4
        s6 == IF from_version < 2
              THEN [s5 EXCEPT !.idx = @ \cup {"idx_question_type"}] ELSE s5
        s8 == [s6 EXCEPT !.vrows = [i \in 1..Len(@) |-> to_version]]
    IN
    IF from_version < 2 /\ failAt = 4 THEN [db |-> db, raised |-> TRUE]
    ELSE IF from_version < 2 /\ failAt = 5 THEN [db |-> s4, raised |-> TRUE]
    ELSE IF from_version < 2 /\ failAt = 6 THEN [db |-> s5, raised |-> TRUE]
    ELSE IF failAt \in {7, 8} THEN [db |-> s6, raised |-> TRUE]
    ELSE [db |-> s8, raised |-> FALSE]

\* init_db. Statement 1 opens the file and creates table version, statement 2
\* selects the version, statement 3 inserts version 0 and commits.
init_db(db, failAt) ==
    LET is_new_db == ~db.file
        s1 == [db EXCEPT !.file = TRUE, !.vtable = TRUE]
        current_version == IF s1.vrows # <<>> THEN s1.vrows[1] ELSE 0
        s3 == IF is_new_db THEN [s1 EXCEPT !.vrows = Append(@, 0)] ELSE s1
    IN
    IF failAt = 1 THEN [db |-> db, raised |-> TRUE]
    ELSE IF failAt = 2 THEN [db |-> s1, raised |-> TRUE]
    ELSE IF is_new_db /\ failAt = 3 THEN [db |-> s1, raised |-> TRUE]
    ELSE IF current_version < DB_VERSION
    THEN migrate_db(s3, current_version, DB_VERSION, failAt)
    ELSE [db |-> s3, raised |-> FALSE]

-----------------------------------------------------------------------------
(* Knowledge base directories: file name -> text of the file *)

PricingText == <<"PricingHeading", "Para", "Table">>
FaqText == <<"QA", "QA">>
FeaturesText == <<"Section", "Section">>
ApiText == <<"Para", "AuthHeading", "CodeBlock", "Section">>

KBEmpty == [f \in {} |-> <<>>]
KBFull == [f \in {"pricing.md", "faq.md", "features.md", "api.md"} |->
              CASE f = "pricing.md" -> PricingText
                [] f = "faq.md" -> FaqText
                [] f = "features.md" -> FeaturesText
                [] f = "api.md" -> ApiText]
\* an empty pricing.md beside api.md
KBApi == [f \in {"pricing.md", "api.md"} |->
              IF f = "pricing.md" THEN <<>> ELSE ApiText]
\* a pricing.md without a table, and a document that has no handler
KBNotes == [f \in {"pricing.md", "release_notes.md"} |->
              IF f = "pricing.md" THEN <<"Para">> ELSE <<"Section", "Para">>]

\* _load_knowledge_base: empty files are skipped, and so are the files whose
\* collection.add raises (bad); the others are stored under their stem
_load_knowledge_base(dir, bad) ==
    LET loaded == {f \in DOMAIN dir : dir[f] # <<>> /\ f \notin bad} IN
    [id \in {Stem(f) : f \in loaded} |-> dir[FileName(id)]]

-----------------------------------------------------------------------------
(* Operations *)

NoLast == [op |-> "none", status |-> "none", input |-> NoText,
           reply |-> Reply(<<>>), source |-> None, consulted |-> FALSE,
           q1 |-> "none", logged |-> "none", rows_before |-> 0,
           hist_before |-> <<>>, fault |-> FALSE, days |-> 0, at |-> 0,
           summary |-> NoSummary, stmt |-> 0]

\* init_db, run at the import of app.analytics
InitDb(failAt) ==
    LET r == init_db(Database, failAt) IN
    /\ db_file' = r.db.file
    /\ version_table' = r.db.vtable
    /\ version_rows' = r.db.vrows
    /\ interactions_table' = r.db.itable
    /\ indexes' = r.db.idx
    /\ last' = [NoLast EXCEPT !.op = "init_db",
                              !.status = IF r.raised THEN "raised" ELSE "ok",
                              !.fault = (failAt # 0),
                              !.stmt = failAt]
    /\ UNCHANGED <<chatVars, interactions, clock, tz, requests>>

\* startup_event and Chatbot.__init__; ok: the embedding function and the
\* store could be set up. A failure is re-raised by __init__ and startup_event
\* raises RuntimeError: the global chatbot stays None.
Startup(dir, bad, ok) ==
    /\ app = "starting"
    /\ IF ok
       THEN /\ app' = "running"
            /\ chatbot' = "Chatbot"
            /\ initialized' = TRUE
            /\ collection' = _load_knowledge_base(dir, bad)
       ELSE /\ app' = "startup_failed"
            /\ chatbot' = "None"
            /\ initialized' = FALSE
            /\ collection' = KBEmpty
    /\ last' = [NoLast EXCEPT !.op = "startup",
                              !.status = IF ok THEN "ok" ELSE "raised"]
    /\ UNCHANGED <<conversation_history, turns, dbVars, clock, tz, requests>>

\* chat_endpoint: message and session_id are the fields of the request body
\* (message: None when it is missing or null; session_id: None when null)
ChatEndpoint(message, session_id, q1, q3, fault) ==
    LET user_input == Strip(message.val)
        r == generate_response(initialized, collection, conversation_history,
                               user_input, q1, q3)
        logged == log_interaction(interactions, interactions_table, clock, tz,
                                  session_id, user_input, Some(r.reply), NoInt,
                                  Some(1), r.source, fault)
    IN
    /\ requests' = requests + 1
    /\ IF ~message.some \/ user_input = <<>> \/ chatbot = "None"
       THEN \* HTTPException 400 or 503, or AttributeError: "except Exception"
            \* turns each into status 500
            /\ last' = [NoLast EXCEPT !.op = "chat", !.status = "500",
                                      !.input = message,
                                      !.rows_before = Len(interactions),
                                      !.hist_before = conversation_history]
            /\ UNCHANGED <<conversation_history, turns, interactions>>
       ELSE /\ conversation_history' = r.history
            /\ turns' = IF initialized
                        THEN Append(turns, <<"user", Strip(Lower(user_input))>>)
                        ELSE turns
            /\ interactions' = logged.rows
            /\ last' = [NoLast EXCEPT !.op = "chat", !.status = "200",
                                      !.input = message,
                                      !.reply = r.reply, !.source = r.source,
                                      !.consulted = r.consulted,
                                      !.q1 = q1.kind,
                                      !.logged = IF logged.ok THEN "True" ELSE "False",
                                      !.rows_before = Len(interactions),
                                      !.hist_before = conversation_history,
                                      !.fault = fault]
    /\ UNCHANGED <<app, chatbot, initialized, collection, db_file, version_table,
                   version_rows, interactions_table, indexes, clock, tz>>

\* the text SQLite stores for a Python int bound to a TEXT column
IntText(n) ==
    CASE n = 1 -> "1" [] n = 2 -> "2" [] n = 3 -> "3" [] n = 4 -> "4"
      [] n = 5 -> "5" [] OTHER -> "9"

\* submit_feedback: log_interaction(data.get("message"), "",
\* data.get("satisfaction")), the three arguments taken by position as
\* session_id, user_input and bot_response
SubmitFeedback(message, satisfaction, fault) ==
    LET logged == log_interaction(interactions, interactions_table, clock, tz,
                                  message, <<>>,
                                  IF satisfaction.some
                                  THEN Some(Reply(<<IntText(satisfaction.val)>>))
                                  ELSE NoReply,
                                  NoInt, NoInt, None, fault)
    IN
    /\ requests' = requests + 1
    /\ interactions' = logged.rows
    /\ last' = [NoLast EXCEPT !.op = "feedback", !.status = "200",
                              !.input = message,
                              !.logged = IF logged.ok THEN "True" ELSE "False",
                              !.rows_before = Len(interactions),
                              !.fault = fault]
    /\ UNCHANGED <<chatVars, db_file, version_table, version_rows,
                   interactions_table, indexes, clock, tz>>

\* get_analytics: get_analytics_summary(days)
GetAnalytics(days, fault) ==
    /\ last' = [NoLast EXCEPT !.op = "analytics", !.status = "200",
                              !.days = days, !.fault = fault,
                              !.at = clock,
                              !.rows_before = Len(interactions),
                              !.summary = get_analytics_summary(
                                  interactions, interactions_table, clock, days,
                                  fault)]
    /\ UNCHANGED <<chatVars, dbVars, clock, tz, requests>>

\* time passes: d slots
Tick(d) ==
    /\ clock' = clock + d
    /\ UNCHANGED <<chatVars, dbVars, tz, requests, last>>

-----------------------------------------------------------------------------
(* The requests of the model *)

\* "Hello"
MsgHello == <<"H", "e", "l", "l", "o">>
\* " hey "
MsgHey == <<" ", "h", "e", "y", " ">>
\* "goodbye"
MsgGoodbye == <<"g", "o", "o", "d", "b", "y", "e">>
\* "bye help"
MsgByeHelp == <<"b", "y", "e", " ", "h", "e", "l", "p">>
\* "help team"
MsgHelpTeam == <<"h", "e", "l", "p", " ", "t", "e", "a", "m">>
\* "team cost"
MsgTeamCost == <<"t", "e", "a", "m", " ", "c", "o", "s", "t">>
\* "what is the pricing plan"
MsgPricingPlan == <<"w", "h", "a", "t", " ", "i", "s", " ", "t", "h", "e", " ", "p", "r", "i", "c", "i", "n", "g", " ", "p", "l", "a", "n">>
\* "plan api"
MsgPlanApi == <<"p", "l", "a", "n", " ", "a", "p", "i">>
\* "faq"
MsgFaq == <<"f", "a", "q">>
\* "feature"
MsgFeature == <<"f", "e", "a", "t", "u", "r", "e">>
\* "API"
MsgApi == <<"A", "P", "I">>
\* "xyzzy"
MsgGibberish == <<"x", "y", "z", "z", "y">>
\* "error 404"
MsgError404 == <<"e", "r", "r", "o", "r", " ", "4", "0", "4">>
\* "get a token"
MsgToken == <<"g", "e", "t", " ", "a", " ", "t", "o", "k", "e", "n">>
\* "  "
MsgBlank == <<" ", " ">>

Session1 == <<"s", "1">>
Session2 == <<"s", "2">>

\* message fields of the chat requests of Spec: a text, or missing
ResolverMessages ==
    {Some(m) : m \in {MsgHello, MsgHey, MsgGoodbye, MsgByeHelp, MsgHelpTeam,
                      MsgTeamCost, MsgPricingPlan, MsgPlanApi, MsgFaq,
                      MsgFeature, MsgApi, MsgGibberish, MsgBlank}}
    \cup {NoText}

KnowledgeDirs == {KBEmpty, KBFull, KBApi, KBNotes}

\* at most one file of the directory fails to load
BadFiles(dir) == {{}} \cup {{f} : f \in DOMAIN dir}

FreshDatabase == [file |-> FALSE, vtable |-> FALSE, vrows |-> <<>>,
                  itable |-> FALSE, idx |-> {}]

\* local time minus UTC: UTC-8, UTC, UTC+8
TimeZones == {-2, 0, 2}

\* 04:00 UTC of a day late enough for every window to start after day 0
StartClock == SlotsPerDay * (MaxDays + 2) + 1

-----------------------------------------------------------------------------
(* Spec: the resolver behind chat_endpoint, on a database that the import of   *)
(* app.analytics has initialised                                             *)

InitChat ==
    /\ app = "starting"
    /\ chatbot = "None"
    /\ initialized = FALSE
    /\ collection = KBEmpty
    /\ conversation_history = <<>>
    /\ turns = <<>>
    /\ requests = 0
    /\ last = NoLast

InitDatabase(db) ==
    /\ db_file = db.file
    /\ version_table = db.vtable
    /\ version_rows = db.vrows
    /\ interactions_table = db.itable
    /\ indexes = db.idx
    /\ interactions = <<>>

Init ==
    /\ InitChat
    /\ InitDatabase(init_db(FreshDatabase, 0).db)
    /\ clock = StartClock
    /\ tz = 0

\* the top-3 query of _handle_no_match is issued only after a top-1 query that
\* returned no lists; otherwise its outcome is never read
Top3Outcomes(coll, q1) ==
    IF q1.kind = "no_lists" THEN QueryOutcomes(coll, 3)
    ELSE {[kind |-> "raise", ids |-> <<>>]}

StartupStep == \E dir \in KnowledgeDirs : \E bad \in BadFiles(dir) :
                   \E ok \in BOOLEAN : Startup(dir, bad, ok)

ChatStep ==
    /\ requests < MaxRequests
    /\ \E message \in ResolverMessages :
         \E q1 \in QueryOutcomes(collection, 1) :
           \E q3 \in Top3Outcomes(collection, q1) :
             ChatEndpoint(message, Some(Session1), q1, q3, FALSE)

Next == StartupStep \/ ChatStep

Spec == Init /\ [][Next]_vars

-----------------------------------------------------------------------------
(* SpecHistory: many turns on one chatbot *)

HistoryMessages == {Some(MsgHello), Some(MsgError404), Some(MsgApi)}

HistoryStartup == \E ok \in BOOLEAN : Startup(KBFull, {}, ok)

HistoryChat ==
    /\ requests < MaxTurns
    /\ \E message \in HistoryMessages :
         \E q1 \in {q \in QueryOutcomes(collection, 1) : q.kind = "raise"} :
           ChatEndpoint(message, Some(Session1), q1, q1, FALSE)

NextHistory == HistoryStartup \/ HistoryChat

SpecHistory == Init /\ [][NextHistory]_vars

-----------------------------------------------------------------------------
(* SpecSessions: the chat requests of two sessions interleaved on the one    *)
(* chatbot of main.py; the semantic query raises or ranks api.md first       *)

SessionsMessages == {Some(MsgError404), Some(MsgApi), Some(MsgToken)}

SessionsStartup == \E ok \in BOOLEAN : Startup(KBFull, {}, ok)

SessionsChat ==
    /\ requests < MaxLogged + 1
    /\ \E message \in SessionsMessages :
         \E session_id \in {Session1, Session2} :
           \E q1 \in {q \in QueryOutcomes(collection, 1) :
                        q.kind = "raise" \/ q.ids = <<"api">>} :
             ChatEndpoint(message, Some(session_id), q1, q1, FALSE)

NextSessions == SessionsStartup \/ SessionsChat

SpecSessions == Init /\ [][NextSessions]_vars

-----------------------------------------------------------------------------
(* SpecFormatApi: _format_api on an API document with or without an          *)
(* Authentication section, after any turns of conversation                   *)

ApiContents ==
    {ApiText, <<"Para">>, <<"Para", "Section">>, <<"AuthHeading", "Para">>,
     <<"Section", "AuthHeading", "CodeBlock">>,
     <<"AuthHeading", "Section", "CodeBlock">>}

FormatApiMessages == {MsgError404, MsgApi}

InitFormatApi ==
    /\ app = "running"
    /\ chatbot = "Chatbot"
    /\ initialized = TRUE
    /\ \E content \in ApiContents : collection = [id \in {"api"} |-> content]
    /\ conversation_history = <<>>
    /\ turns = <<>>
    /\ requests = 0
    /\ last = NoLast
    /\ InitDatabase(init_db(FreshDatabase, 0).db)
    /\ clock = StartClock
    /\ tz = 0

\* lines 98 and 99 of generate_response: the turn is recorded before a
\* formatter runs
FormatApiTurn ==
    /\ requests < MaxTurns
    /\ \E user_input \in FormatApiMessages :
         conversation_history' =
             _update_conversation_history(conversation_history, "user",
                                          Strip(Lower(user_input)))
    /\ requests' = requests + 1
    /\ last' = NoLast
    /\ UNCHANGED <<app, chatbot, initialized, collection, turns, dbVars, clock, tz>>

\* self._format_api(content) on the stored text of api.md
FormatApi ==
    /\ last.op = "none"
    /\ last' = [NoLast EXCEPT !.op = "_format_api",
                              !.reply = _format_api(collection["api"],
                                                    conversation_history),
                              !.source = "api.md",
                              !.hist_before = conversation_history]
    /\ UNCHANGED <<app, chatbot, initialized, collection, conversation_history,
                   turns, requests, dbVars, clock, tz>>

NextFormatApi == FormatApiTurn \/ FormatApi

SpecFormatApi == InitFormatApi /\ [][NextFormatApi]_vars

-----------------------------------------------------------------------------
(* SpecMigration: the database from its creation, init_db run again and      *)
(* again, any statement of it failing                                        *)

InitMigration ==
    /\ InitChat
    /\ InitDatabase(FreshDatabase)
    /\ clock = StartClock
    /\ tz = 0

MigrationInitDb == \E failAt \in 0..8 : InitDb(failAt)

MigrationStartup == \E ok \in BOOLEAN : Startup(KBFull, {}, ok)

MigrationChat ==
    /\ requests < MaxLogged
    /\ \E message \in {Some(MsgPricingPlan), Some(MsgGoodbye)} :
         \E q1 \in {q \in QueryOutcomes(collection, 1) : q.kind = "raise"} :
           ChatEndpoint(message, Some(Session1), q1, q1, FALSE)

NextMigration == MigrationInitDb \/ MigrationStartup \/ MigrationChat

SpecMigration == InitMigration /\ [][NextMigration]_vars

-----------------------------------------------------------------------------
(* SpecAnalytics: the log and the summary of a started service on an         *)
(* initialised database, in a time zone behind, at or ahead of UTC, while    *)
(* time passes                                                               *)

InitAnalytics ==
    /\ app = "running"
    /\ chatbot = "Chatbot"
    /\ initialized = TRUE
    /\ collection = _load_knowledge_base(KBFull, {})
    /\ conversation_history = <<>>
    /\ turns = <<>>
    /\ requests = 0
    /\ last = NoLast
    /\ InitDatabase(init_db(FreshDatabase, 0).db)
    /\ clock = StartClock
    /\ tz \in TimeZones

AnalyticsChat ==
    /\ requests < MaxLogged
    /\ \E message \in {Some(MsgPricingPlan), Some(MsgGibberish), NoText} :
         \E session_id \in {Some(Session1), Some(Session2), NoText} :
           \E q1 \in {q \in QueryOutcomes(collection, 1) : q.kind = "raise"} :
             \E fault \in BOOLEAN :
               ChatEndpoint(message, session_id, q1, q1, fault)

AnalyticsFeedback ==
    /\ requests < MaxLogged
    /\ \E message \in {Some(MsgGibberish), NoText} :
         \E satisfaction \in {Some(5), NoInt} : \E fault \in BOOLEAN :
           SubmitFeedback(message, satisfaction, fault)

AnalyticsSummary == \E days \in -1..MaxDays : \E fault \in BOOLEAN :
                        GetAnalytics(days, fault)

\* a short while, or most of a day
AnalyticsTick == \E d \in {1, SlotsPerDay - 1} :
                     clock + d <= StartClock + MaxElapsed /\ Tick(d)

NextAnalytics ==
    \/ AnalyticsChat
    \/ AnalyticsFeedback
    \/ AnalyticsSummary
    \/ AnalyticsTick

SpecAnalytics == InitAnalytics /\ [][NextAnalytics]_vars

-----------------------------------------------------------------------------
(* Properties of the resolver, under Spec *)

\* the last operation was a chat request that resolved a reply
Resolved == last.op = "chat" /\ last.status = "200"

\* the text generate_response matched: chat_endpoint strips the message,
\* generate_response lower-cases and strips it
CleanInput == Strip(Lower(Strip(last.input.val)))

Greets == \E k \in {<<"h", "i">>, <<"h", "e", "l", "l", "o">>, <<"h", "e", "y">>} :
              Contains(CleanInput, k)
Parts == \E k \in {<<"b", "y", "e">>, <<"g", "o", "o", "d", "b", "y", "e">>} :
             Contains(CleanInput, k)
AsksHelp == Contains(CleanInput, <<"h", "e", "l", "p">>)
AsksOrg == \E k \in {<<"w", "h", "o">>, <<"c", "e", "o">>,
                     <<"f", "o", "u", "n", "d", "e", "r">>, <<"t", "e", "a", "m">>} :
               Contains(CleanInput, k)
NoRule == ~Greets /\ ~Parts /\ ~AsksHelp /\ ~AsksOrg

\* the k-th known document has a trigger in the input and is in the store
Applicable(k) ==
    /\ \E t \in Triggers(DocOrder[k]) : Contains(CleanInput, t)
    /\ Stem(DocOrder[k]) \in DOMAIN collection
FirstApplicable(k) == Applicable(k) /\ \A j \in 1..(k - 1) : ~Applicable(j)
NoTrigger == \A k \in 1..4 : \A t \in Triggers(DocOrder[k]) : ~Contains(CleanInput, t)

\* C1: the reply of a resolved request comes from the first applicable branch
\* in the order greeting, farewell, help, organizational, then the documents
\* pricing, faq, features, api; the four rule branches answer with no source
\* whatever the store holds.
C1_BranchOrder ==
    Resolved =>
        /\ Greets => last.reply = GreetingMsg /\ last.source = None
        /\ ~Greets /\ Parts => last.reply = FarewellMsg /\ last.source = None
        /\ ~Greets /\ ~Parts /\ AsksHelp =>
               last.reply = _get_help_response /\ last.source = None
        /\ ~Greets /\ ~Parts /\ ~AsksHelp /\ AsksOrg =>
               last.reply = OrgMsg /\ last.source = None
        /\ NoRule => \A k \in 1..4 : FirstApplicable(k) => last.source = DocOrder[k]

\* "team cost" on a store that holds pricing.md: the organizational branch and
\* the pricing trigger both apply, and the organizational reply is given
C1_Witness ==
    /\ Resolved
    /\ last.input = Some(MsgTeamCost)
    /\ "pricing" \in DOMAIN collection
    /\ last.reply = OrgMsg
    /\ last.source = None

\* C2: a trigger keyword of a stored document yields that document's formatter
\* applied to the whole stored text, and the document's file name as source.
C2_WholeTextFormatted ==
    Resolved /\ NoRule =>
        \A k \in 1..4 : FirstApplicable(k) =>
            /\ last.source = DocOrder[k]
            /\ last.reply = HandlerFormat(DocOrder[k], collection[Stem(DocOrder[k])],
                                          conversation_history)

\* C3: an input without any keyword, resolved against an empty store whose
\* top-1 query returns and yields no document, gets the capability menu with
\* no source.
C3_EmptyStoreHelpMenu ==
    Resolved /\ NoRule /\ NoTrigger /\ DOMAIN collection = {}
             /\ last.q1 \in {"lists", "no_lists"} =>
        last.reply = _get_help_response /\ last.source = None

\* C9: after a failed initialization the chatbot exists, marked uninitialized,
\* and every chat request is answered with the fixed initializing message, no
\* source, the history untouched and the store not consulted.
C9_DegradesToStaticMessage ==
    app = "startup_failed" =>
        /\ chatbot = "Chatbot"
        /\ ~initialized
        /\ last.op = "chat" /\ last.input.some /\ Strip(last.input.val) # <<>> =>
               /\ last.status = "200"
               /\ last.reply = InitializingMsg
               /\ last.source = None
               /\ conversation_history = last.hist_before
               /\ ~last.consulted

\* the request reached the top-1 query and the query raised
QueryRaised == Resolved /\ NoRule /\ (\A k \in 1..4 : ~Applicable(k))
                        /\ last.q1 = "raise"

-----------------------------------------------------------------------------
(* Properties of the conversation history, under SpecHistory *)

\* C6: the history holds at most 6 entries, the most recent turns in arrival
\* order; from the 7th turn on the oldest turns are gone.
C6_HistoryWindow ==
    /\ Len(conversation_history) <= 6
    /\ conversation_history =
           SubSeq(turns, IF Len(turns) > 6 THEN Len(turns) - 5 ELSE 1, Len(turns))

\* seven turns recorded, and the first of them is in the history no more
C6_Witness ==
    /\ Len(turns) = 7
    /\ Len(conversation_history) = 6
    /\ \A i \in 1..Len(conversation_history) : conversation_history[i] # turns[1]
    /\ conversation_history[6] = turns[7]

-----------------------------------------------------------------------------
(* Properties of interleaved sessions, under SpecSessions *)

\* the lines of the last reply
ReplyLines == {last.reply.lines[i] : i \in 1..Len(last.reply.lines)}

\* the last two logged requests: one session mentioned "404", then another
\* session that never mentioned "404" was answered from api.md
CrossSession404 ==
    LET n == Len(interactions) IN
    /\ Resolved /\ last.logged = "True" /\ n >= 2
    /\ last.source = "api.md"
    /\ interactions[n - 1].session_id # interactions[n].session_id
    /\ Contains(interactions[n - 1].user_input, Kw404)
    /\ \A i \in 1..n :
          interactions[i].session_id = interactions[n].session_id
              => ~Contains(interactions[i].user_input, Kw404)

\* C12: a "404" mention by one session followed by an API question from
\* another session puts the 404 checklist into the reply to that question.
C12_ChecklistInOtherSessionsReply ==
    CrossSession404 => Checklist404 \in ReplyLines

\* the turns of both sessions are in the one history, in arrival order
SessionsShareHistory ==
    /\ C6_HistoryWindow
    /\ Len(turns) = Len(interactions)
    /\ \A i \in 1..Len(turns) :
          turns[i][2] = Strip(Lower(interactions[i].user_input))

\* the API question matched no trigger and the semantic query ranked api.md
\* first: the checklist is in the reply
ChecklistBySemanticMatch ==
    CrossSession404 /\ NoRule /\ NoTrigger /\ last.q1 = "lists"
        => Checklist404 \in ReplyLines

-----------------------------------------------------------------------------
(* Properties of the API formatter, under SpecFormatApi *)

\* the two most recent turns of a history mention "404"
TwoMostRecentMention404(history) ==
    /\ Len(history) >= 2
    /\ Contains(history[Len(history)][2], Kw404)
    /\ Contains(history[Len(history) - 1][2], Kw404)

\* C13: the reply of _format_api holds the 404 checklist exactly when the two
\* most recent turns mention "404", whatever the document, and holds the
\* resource footer in all cases.
C13_ChecklistIffTwoRecentTurns404 ==
    last.op = "_format_api" =>
        /\ Checklist404 \in ReplyLines <=> TwoMostRecentMention404(last.hist_before)
        /\ ApiFooter \in ReplyLines

\* what _format_api does: the checklist exactly when the document has an
\* Authentication section and the turn before the most recent one mentions
\* "404"; the footer in all cases
FormatApiChecklistRule ==
    last.op = "_format_api" =>
        LET h == last.hist_before IN
        /\ Checklist404 \in ReplyLines <=>
               /\ \E i \in 1..Len(collection["api"]) :
                      collection["api"][i] = "AuthHeading"
               /\ Len(h) >= 2
               /\ Contains(h[Len(h) - 1][2], Kw404)
        /\ ApiFooter \in ReplyLines

-----------------------------------------------------------------------------
(* Properties of the database, under SpecMigration *)

\* C7: after init_db returns without raising, table interactions and its two
\* indexes exist and table version holds the single row 2.
C7_InitDbLeavesCurrentVersion ==
    last.op = "init_db" /\ last.status = "ok" =>
        /\ interactions_table
        /\ indexes = {"idx_session", "idx_question_type"}
        /\ version_rows = <<2>>

\* the database as it is when init_db calls migrate_db: the file and table
\* version exist, and a database that init_db created holds the row 0
BeforeMigration(db) ==
    [db EXCEPT !.file = TRUE, !.vtable = TRUE,
               !.vrows = IF db.file THEN @ ELSE Append(@, 0)]

\* C11: when a statement of migrate_db fails and init_db raises, the tables,
\* the indexes and the version value are what they were when the migration
\* started.
C11_MigrationRollsBackFully ==
    [][last'.op = "init_db" /\ last'.status = "raised" /\ last'.stmt \in 4..8
          => Database' = BeforeMigration(Database)]_vars

-----------------------------------------------------------------------------
(* Properties of the log and of the summary, under SpecAnalytics *)

\* the UTC time at which a row was logged
RowUtc(row) == row.timestamp.date * SlotsPerDay + row.timestamp.time - tz

CountOf(summary, category) ==
    IF category \in DOMAIN summary.question_types
    THEN summary.question_types[category] ELSE 0

\* C4: after log_interaction returned true, a summary over a window of one day
\* or more that reaches back to the time of the log counts the new record: the
\* total and the count of the record's category are one higher than they are
\* over the records that were there before.
C4_SummaryCountsNewRecord ==
    last.logged = "True" =>
        LET new == interactions[Len(interactions)]
            old == SubSeq(interactions, 1, Len(interactions) - 1)
        IN
        \A days \in 1..MaxDays :
            RowUtc(new) >= clock - days * SlotsPerDay =>
                LET after == get_analytics_summary(interactions, TRUE, clock, days, FALSE)
                    before == get_analytics_summary(old, TRUE, clock, days, FALSE)
                    category == classify_question(new.user_input)
                IN
                /\ after.total_interactions = before.total_interactions + 1
                /\ CountOf(after, category) = CountOf(before, category) + 1

\* C5: a summary whose window starts after every stored record (days = 0 after
\* the records were logged, among others) returns zero counts, an empty
\* breakdown and no error descriptor.
C5_EmptyWindowZeroCounts ==
    /\ last.op = "analytics"
    /\ ~last.fault
    /\ \A i \in 1..Len(interactions) :
           RowUtc(interactions[i]) < last.at - last.days * SlotsPerDay
    => /\ ~last.summary.error
       /\ last.summary.total_interactions = 0
       /\ last.summary.unique_sessions = 0
       /\ DOMAIN last.summary.question_types = {}

\* C8: a chat request that resolved a reply, or a feedback submission, has
\* added exactly one record to the log (here: while the storage engine works).
C8_ExactlyOneRecord ==
    /\ Resolved \/ last.op = "feedback"
    /\ ~last.fault
    => Len(interactions) = last.rows_before + 1

=============================================================================
